---------------------------- MODULE Spec2Model ----------------------------
(***************************************************************************)
(* A model of package retry (src/retry/retry.go): the Attempt state        *)
(* machine driven through Next / HasNext / Count by one caller, together   *)
(* with its three collaborators: the Timer made by the Strategy, the       *)
(* clock, and the stop channel.                                            *)
(*                                                                         *)
(* Time is counted in ticks of 50ms (0.1s = 2 ticks, 0.25s = 5 ticks,      *)
(* 5s = 100 ticks, 30s = 600 ticks).                                       *)
(*                                                                         *)
(* Spec is the Attempt with any caller, clock and stop channel; SpecTest   *)
(* is the table-driven test of the strategies (retry_test.go), which sets  *)
(* a mock clock before each Next; SpecLive is a caller that calls Next for *)
(* ever, with the fairness of Go's select.                                 *)
(***************************************************************************)
EXTENDS Integers, Sequences, FiniteSets, TLC

VARIABLES
    strategy,     \* the Strategy handed to Start
    clk,          \* which clock.Clock the Attempt is bound to
    stop,         \* the stop channel: "nil", "open" or "closed"
    t0,           \* clk.Now() at Start
    now,          \* the clock's current time
    timer,        \* the Timer's cursor
    count,        \* Attempt.count
    waited,       \* Attempt.waited
    running,      \* Attempt.running
    pc,           \* where the caller is: "idle", "select" (blocked), "woken"
    op,           \* the method the caller is inside while pc # "idle"
    deadline,     \* when the channel of the last clock.After fires
    woke,         \* the select case taken by the last select
    blocked,      \* whether the last select had to block
    nextCalls,    \* history: Next calls that have returned
    granted,      \* history: Next calls that have returned true
    nsCalls,      \* history: calls of Timer.NextSleep
    waits,        \* history: selects entered
    nsPos,        \* history: NextSleep calls since Next last returned
    waitPos,      \* history: selects entered since Next last returned
    peeks,        \* history: values HasNext returned since Next last returned
    peekN,        \* history: HasNext calls returned since Next last returned
    peeksBefore,  \* history: peeks as it was when Next last returned
    lastNext,     \* history: what Next last returned
    ret,          \* history: what Next or HasNext last returned
    peeked,       \* history: HasNext has been called
    late,         \* history: time has passed other than exactly the sleeps
    stopAt,       \* history: <<waits, nextCalls, peekN>> when stop was closed
    lastSleep,    \* history: the duration last handed to clock.After
    countRet,     \* history: what Count returned, if it was the last call
    asked,        \* history: the answer of the last NextSleep call
    callTimes,    \* testStrategy: the times since Start it has set the clock to
    capped        \* whether the counters stop at MaxNext instead of the calls

attempt == <<count, waited, running>>
control == <<pc, op, deadline, woke, blocked>>
world   == <<strategy, capped, clk, stop, t0, now, timer>>
history == <<nextCalls, granted, nsCalls, waits, nsPos, waitPos, peeks, peekN,
             peeksBefore, lastNext, ret, peeked, late, stopAt, lastSleep,
             countRet, asked, callTimes>>
vars    == <<world, attempt, control, history>>

----------------------------------------------------------------------------
(* Bounds of the model.                                                    *)

MaxNext == 4
MaxPeek == 2
MaxTime == 6
MaxCalls == 5
MaxLive == 2

\* A counter after a step. Where the caller is to go on calling for ever
\* (capped), the counters stop at MaxLive, which leaves every decision of
\* the Attempt as it is: none of them reads a counter.
Cap(x) == IF capped /\ x > MaxLive THEN MaxLive ELSE x

\* What has not happened yet. A returned value v is recorded as {v}.
None == "none"
NoValue == {}
NoSleep == 0 - 1

----------------------------------------------------------------------------
(* Strategies and their Timers.                                            *)

\* Regular{Total, Delay, Min}.
Regular(total, delay, min) ==
    [kind |-> "regular", Total |-> total, Delay |-> delay, Min |-> min]

\* Any other implementation of Strategy: its Timer may answer anything.
AnyStrategy == [kind |-> "any", Total |-> 0, Delay |-> 0, Min |-> 0]

\* The sleeps a Timer of AnyStrategy proposes.
AnySleeps == {0, 2}

\* The strategies of the tests.
RegularTiming == Regular(5, 2, 0)
RegularZero   == Regular(0, 0, 0)
RegularStop   == Regular(600, 100, 0)

Strategies == {AnyStrategy, RegularTiming, RegularZero, RegularStop}

\* Exponential{Initial, Factor}.
Exponential(initial, factor) ==
    [kind |-> "exponential", Initial |-> initial, Factor |-> factor]

\* LimitTime(limit, strategy).
LimitTime(limit, inner) ==
    [kind |-> "limitTime", Limit |-> limit, Inner |-> inner]

\* LimitCount(n, strategy).
LimitCount(n, inner) ==
    [kind |-> "limitCount", N |-> n, Inner |-> inner]

\* The strategies of strategyTests and of TestAttemptNextHasNext.
RegularLate    == Regular(70, 20, 0)
RegularMin     == Regular(2, 0, 2)
ExpDouble      == Exponential(20, 2)
LimitTimeExp   == LimitTime(100, ExpDouble)
LimitCountExp  == LimitCount(2, ExpDouble)

TestStrategies ==
    {RegularTiming, RegularZero, RegularMin, RegularLate, ExpDouble,
     LimitTimeExp, LimitCountExp}

RECURSIVE NewTimer(_, _)
\* strategy.NewTimer(now): n counts the NextSleep calls made; an
\* exponential Timer keeps the instant its last attempt was due at and the
\* delay that follows it; a limiting Timer keeps the Timer it limits.
NewTimer(s, tnow) ==
    CASE s.kind = "exponential" ->
             [start |-> tnow, n |-> 0, at |-> tnow, cur |-> s.Initial]
      [] s.kind \in {"limitTime", "limitCount"} ->
             [start |-> tnow, n |-> 0, inner |-> NewTimer(s.Inner, tnow)]
      [] OTHER -> [start |-> tnow, n |-> 0]

\* regularTimer.NextSleep(now): the attempts granted so far are the first
\* one and one for each earlier NextSleep call.
RegularNextSleep(s, t, tnow) ==
    LET attempts == t.n + 1
        instant  == t.start + s.Delay * attempts
        sleep    == IF attempts < s.Min THEN s.Delay
                    ELSE IF instant <= tnow THEN 0 ELSE instant - tnow
        ok       == attempts < s.Min \/ tnow + sleep <= t.start + s.Total
    IN  [sleep |-> sleep, ok |-> ok, timer |-> [t EXCEPT !.n = @ + 1]]

\* exponentialTimer.NextSleep(now): the first sleep is Initial and each
\* later one Factor times the one before, counted from the instant the
\* attempt before was due at, so that a late call sleeps less.
ExponentialNextSleep(s, t, tnow) ==
    LET instant == t.at + t.cur
        sleep   == IF instant <= tnow THEN 0 ELSE instant - tnow
    IN  [sleep |-> sleep, ok |-> TRUE,
         timer |-> [t EXCEPT !.at = instant, !.cur = @ * s.Factor,
                             !.n = @ + 1]]

\* limitTime's NextSleep(now), given the answer r of the Timer it limits.
LimitTimeNextSleep(s, t, tnow, r) ==
    [sleep |-> r.sleep,
     ok    |-> r.ok /\ (tnow - t.start) + r.sleep <= s.Limit,
     timer |-> [t EXCEPT !.inner = r.timer, !.n = @ + 1]]

\* limitCount's NextSleep(now), given the answer r of the Timer it limits.
LimitCountNextSleep(s, t, tnow, r) ==
    [sleep |-> r.sleep,
     ok    |-> r.ok /\ t.n + 1 < s.N,
     timer |-> [t EXCEPT !.inner = r.timer, !.n = @ + 1]]

RECURSIVE NextSleep(_, _, _)
\* Timer.NextSleep(now): the answers the Timer may give, each with the
\* Timer's cursor after the call.
NextSleep(s, t, tnow) ==
    CASE s.kind = "regular" -> {RegularNextSleep(s, t, tnow)}
      [] s.kind = "exponential" -> {ExponentialNextSleep(s, t, tnow)}
      [] s.kind = "limitTime" ->
             {LimitTimeNextSleep(s, t, tnow, r) :
                  r \in NextSleep(s.Inner, t.inner, tnow)}
      [] s.kind = "limitCount" ->
             {LimitCountNextSleep(s, t, tnow, r) :
                  r \in NextSleep(s.Inner, t.inner, tnow)}
      [] OTHER ->
             {[sleep |-> d, ok |-> b, timer |-> [t EXCEPT !.n = @ + 1]] :
                  d \in AnySleeps, b \in BOOLEAN}

----------------------------------------------------------------------------
(* The clock and the stop channel.                                         *)

\* "mock" is the tests' mockClock, "timed" a clock whose After channel fires
\* once the clock has reached now + d (clock.WallClock, testing.Clock).
Clocks == {"mock", "timed"}

\* What the clock shows when Start is called.
StartTimes == {1}

\* The amounts by which the clock is moved from outside.
Steps == {1, 2}

\* mockClock.After(d): c.now = c.now.Add(d), and the channel returned is
\* already closed.
MockAfter(tnow, d) == [now |-> tnow + d, deadline |-> tnow + d]

\* After(d) of a clock that keeps time: the channel fires once the clock
\* has reached now + d.
TimedAfter(tnow, d) == [now |-> tnow, deadline |-> tnow + d]

\* clk.After(d): the clock's time and the channel's firing time after it.
After(c, tnow, d) ==
    IF c = "mock" THEN MockAfter(tnow, d) ELSE TimedAfter(tnow, d)

\* A select whose clock case can always proceed.
ReadyAtOnce(tnow, dl, st) ==
    {"clock"} \cup (IF st = "closed" THEN {"stop"} ELSE {})

\* The cases of the select that can proceed.
Ready(tnow, dl, st) ==
    (IF tnow >= dl THEN {"clock"} ELSE {}) \cup
    (IF st = "closed" THEN {"stop"} ELSE {})

\* select: one of the cases that can proceed, or "block" when none can.
Select(tnow, dl, st) ==
    IF Ready(tnow, dl, st) = {} THEN {"block"} ELSE Ready(tnow, dl, st)

----------------------------------------------------------------------------
(* Start.                                                                  *)

\* A Start that leaves the first wait owed.
StartNotWaited == [count |-> 0, waited |-> FALSE, running |-> TRUE]

\* The Attempt that Start returns.
Start == [count |-> 0, waited |-> TRUE, running |-> TRUE]

\* Start(strategy, clk, stop), called when the clock shows t0.
Started ==
    /\ t0 \in StartTimes
    /\ now = t0
    /\ timer = NewTimer(strategy, t0)
    /\ count = Start.count
    /\ waited = Start.waited
    /\ running = Start.running
    /\ pc = "idle"
    /\ op = None
    /\ deadline = t0
    /\ woke = None
    /\ blocked = FALSE
    /\ nextCalls = 0
    /\ granted = 0
    /\ nsCalls = 0
    /\ waits = 0
    /\ nsPos = 0
    /\ waitPos = 0
    /\ peeks = {}
    /\ peekN = 0
    /\ peeksBefore = {}
    /\ lastNext = NoValue
    /\ ret = NoValue
    /\ peeked = FALSE
    /\ late = FALSE
    /\ stopAt = IF stop = "closed" THEN <<0, 0, 0>> ELSE <<>>
    /\ lastSleep = NoSleep
    /\ countRet = NoValue
    /\ asked = <<>>
    /\ callTimes = <<>>

Init ==
    /\ strategy \in Strategies
    /\ clk \in Clocks
    /\ stop \in {"nil", "open", "closed"}
    /\ capped = FALSE
    /\ Started

----------------------------------------------------------------------------
(* HasNext, up to the point where it returns or blocks in the select.      *)

\* A HasNext that does not remember having waited.
EarlyReturnNoMemo == ~running

\* A HasNext that returns early only on a.waited.
EarlyReturnWaitedOnly == waited

\* if a.waited || !a.running { return a.running }
EarlyReturn == waited \/ ~running

\* A select whose stop case leaves a.running alone.
AfterCaseIgnoresStop(c, r) == r

\* What a select case leaves in a.running.
AfterCase(c, r) == IF c = "stop" THEN FALSE ELSE r

\* A HasNext that returns early only on a.waited and stores the Timer's
\* answer in a.running (a.running = ok).
HasNextOutcomesRevive ==
    IF waited
    THEN {[waited |-> waited, running |-> running, timer |-> timer,
           now |-> now, deadline |-> deadline, sel |-> "skip",
           ns |-> 0, sleep |-> lastSleep, asked |-> asked]}
    ELSE UNION {
        IF ~r.ok
        THEN {[waited |-> TRUE, running |-> FALSE, timer |-> r.timer,
               now |-> now, deadline |-> deadline, sel |-> "skip",
               ns |-> 1, sleep |-> lastSleep,
               asked |-> <<r.sleep, r.ok>>]}
        ELSE LET a == After(clk, now, r.sleep)
             IN  {[waited |-> TRUE, running |-> AfterCase(c, TRUE),
                   timer |-> r.timer, now |-> a.now, deadline |-> a.deadline,
                   sel |-> c, ns |-> 1, sleep |-> r.sleep,
                   asked |-> <<r.sleep, r.ok>>] :
                      c \in Select(a.now, a.deadline, stop)}
        : r \in NextSleep(strategy, timer, now)}

\* A HasNext that goes through the select before it looks at the Timer's
\* continue answer.
HasNextOutcomesWaitsFirst ==
    IF EarlyReturn
    THEN {[waited |-> waited, running |-> running, timer |-> timer,
           now |-> now, deadline |-> deadline, sel |-> "skip",
           ns |-> 0, sleep |-> lastSleep, asked |-> asked]}
    ELSE UNION {
        LET a == After(clk, now, r.sleep)
        IN  {[waited |-> TRUE, running |-> r.ok /\ AfterCase(c, running),
              timer |-> r.timer, now |-> a.now, deadline |-> a.deadline,
              sel |-> c, ns |-> 1, sleep |-> r.sleep,
              asked |-> <<r.sleep, r.ok>>] :
                 c \in Select(a.now, a.deadline, stop)}
        : r \in NextSleep(strategy, timer, now)}

\* The ways a call of HasNext can go from the current state: the fields it
\* leaves, and sel: "skip" when no select is entered, the case taken when
\* one can proceed at once, "block" when none can.
HasNextOutcomes ==
    IF EarlyReturn
    THEN {[waited |-> waited, running |-> running, timer |-> timer,
           now |-> now, deadline |-> deadline, sel |-> "skip",
           ns |-> 0, sleep |-> lastSleep, asked |-> asked]}
    ELSE UNION {
        IF ~r.ok
        THEN {[waited |-> TRUE, running |-> FALSE, timer |-> r.timer,
               now |-> now, deadline |-> deadline, sel |-> "skip",
               ns |-> 1, sleep |-> lastSleep,
               asked |-> <<r.sleep, r.ok>>]}
        ELSE LET a == After(clk, now, r.sleep)
             IN  {[waited |-> TRUE, running |-> AfterCase(c, running),
                   timer |-> r.timer, now |-> a.now, deadline |-> a.deadline,
                   sel |-> c, ns |-> 1, sleep |-> r.sleep,
                   asked |-> <<r.sleep, r.ok>>] :
                      c \in Select(a.now, a.deadline, stop)}
        : r \in NextSleep(strategy, timer, now)}

\* A Next that counts whether or not the Attempt is running.
NextTailCountsAlways(w, r, n) ==
    [waited |-> FALSE, count |-> n + 1, ret |-> r]

\* A Next that leaves a.waited as HasNext left it.
NextTailKeepsWaited(w, r, n) ==
    [waited |-> w, count |-> IF r THEN n + 1 ELSE n, ret |-> r]

\* The rest of Next after its call of HasNext, which left running = r:
\* a.waited = false; if a.running { a.count++ }; return a.running
NextTail(w, r, n) ==
    [waited |-> FALSE, count |-> IF r THEN n + 1 ELSE n, ret |-> r]

\* A HasNext that counts the attempt it announces.
HasNextTailCounts(w, r, n) ==
    [waited |-> w, count |-> IF r THEN n + 1 ELSE n, ret |-> r]

\* HasNext returns a.running and changes nothing more.
HasNextTail(w, r, n) ==
    [waited |-> w, count |-> n, ret |-> r]

\* The call of method m returns, HasNext having left waited = w and
\* running = r.
Return(m, w, r) ==
    LET t == IF m = "Next" THEN NextTail(w, r, count)
             ELSE HasNextTail(w, r, count)
    IN  /\ pc' = "idle"
        /\ op' = None
        /\ waited' = t.waited
        /\ running' = r
        /\ count' = Cap(t.count)
        /\ ret' = {t.ret}
        /\ countRet' = NoValue
        /\ IF m = "Next"
           THEN /\ nextCalls' = Cap(nextCalls + 1)
                /\ granted' = Cap(IF t.ret THEN granted + 1 ELSE granted)
                /\ lastNext' = {t.ret}
                /\ peeksBefore' = peeks
                /\ peeks' = {}
                /\ peekN' = 0
                /\ UNCHANGED peeked
           ELSE /\ peeks' = peeks \cup {t.ret}
                /\ peekN' = peekN + 1
                /\ peeked' = TRUE
                /\ UNCHANGED <<nextCalls, granted, lastNext, peeksBefore>>

\* The caller calls method m, which runs until it returns or blocks.
Call(m) ==
    /\ pc = "idle"
    /\ \E o \in HasNextOutcomes :
        /\ timer' = [o.timer EXCEPT !.n = Cap(@)]
        /\ now' = o.now
        /\ deadline' = o.deadline
        /\ lastSleep' = o.sleep
        /\ asked' = o.asked
        /\ nsCalls' = Cap(nsCalls + o.ns)
        /\ waits' = Cap(IF o.sel = "skip" THEN waits ELSE waits + 1)
        /\ woke' = IF o.sel \in {"skip", "block"} THEN woke ELSE o.sel
        /\ blocked' = IF o.sel = "skip" THEN blocked ELSE o.sel = "block"
        /\ IF o.sel = "block"
           THEN /\ pc' = "select"
                /\ op' = m
                /\ waited' = o.waited
                /\ running' = o.running
                /\ nsPos' = nsPos + o.ns
                /\ waitPos' = waitPos + 1
                /\ UNCHANGED <<count, nextCalls, granted, peeks, peekN,
                               peeksBefore, lastNext, ret, peeked, countRet>>
           ELSE /\ Return(m, o.waited, o.running)
                /\ nsPos' = IF m = "Next" THEN 0 ELSE nsPos + o.ns
                /\ waitPos' = IF m = "Next" THEN 0
                              ELSE IF o.sel = "skip" THEN waitPos
                              ELSE waitPos + 1
    /\ UNCHANGED <<strategy, capped, clk, stop, t0, late, stopAt, callTimes>>

AttemptNext ==
    /\ capped \/ nextCalls < MaxNext
    /\ Call("Next")

AttemptHasNext ==
    /\ peekN < MaxPeek
    /\ Call("HasNext")

\* The caller, woken from the select, runs the case taken and the rest of
\* the method.
Resume ==
    /\ pc = "woken"
    /\ Return(op, waited, AfterCase(woke, running))
    /\ nsPos' = IF op = "Next" THEN 0 ELSE nsPos
    /\ waitPos' = IF op = "Next" THEN 0 ELSE waitPos
    /\ UNCHANGED <<world, deadline, woke, blocked, nsCalls, waits, late,
                   stopAt, lastSleep, asked, callTimes>>

\* Count returns a.count.
AttemptCount ==
    /\ pc = "idle"
    /\ countRet' = {count}
    /\ UNCHANGED <<world, attempt, control, nextCalls, granted, nsCalls,
                   waits, nsPos, waitPos, peeks, peekN, peeksBefore,
                   lastNext, ret, peeked, late, stopAt, lastSleep, asked,
                   callTimes>>

----------------------------------------------------------------------------
(* The world around the Attempt.                                           *)

\* The clock moves on by d. A caller blocked in the select is woken by the
\* clock's channel when the time it fires at is reached.
Advance(d) ==
    /\ now + d <= MaxTime
    /\ now' = now + d
    /\ IF pc = "select" /\ now + d >= deadline
       THEN /\ pc' = "woken"
            /\ woke' = "clock"
            /\ late' = (late \/ now + d > deadline)
       ELSE /\ late' = (late \/ pc # "select")
            /\ UNCHANGED <<pc, woke>>
    /\ UNCHANGED <<strategy, capped, clk, stop, t0, timer, attempt, op,
                   deadline, blocked, nextCalls, granted, nsCalls, waits,
                   nsPos, waitPos, peeks, peekN, peeksBefore, lastNext, ret,
                   peeked, stopAt, lastSleep, countRet, asked, callTimes>>

\* The stop channel is closed. A caller blocked in the select is woken by it.
StopClose ==
    /\ stop = "open"
    /\ stop' = "closed"
    /\ stopAt' = <<waits, nextCalls, peekN>>
    /\ IF pc = "select"
       THEN pc' = "woken" /\ woke' = "stop"
       ELSE UNCHANGED <<pc, woke>>
    /\ UNCHANGED <<strategy, capped, clk, t0, now, timer, attempt, op,
                   deadline, blocked, nextCalls, granted, nsCalls, waits,
                   nsPos, waitPos, peeks, peekN, peeksBefore, lastNext, ret,
                   peeked, late, lastSleep, countRet, asked, callTimes>>

Next ==
    \/ AttemptNext
    \/ AttemptHasNext
    \/ AttemptCount
    \/ Resume
    \/ \E d \in Steps : Advance(d)
    \/ StopClose

Spec == Init /\ [][Next]_vars

----------------------------------------------------------------------------
(* The table-driven test of the strategies: a mockClock that the test sets *)
(* before each Next, and no stop channel.                                  *)

\* The times since Start at which the test tables call Next, in ticks.
CallTimes == {0, 2, 4, 10, 20, 40, 42, 60, 140}

\* clk := &mockClock{now: t0}; a := retry.Start(test.strategy, clk, nil)
TestInit ==
    /\ strategy \in TestStrategies
    /\ clk = "mock"
    /\ stop = "nil"
    /\ capped = FALSE
    /\ Started

\* clk.now = t0.Add(call.t): the tables never put the clock back.
TestSetClock(t) ==
    /\ pc = "idle"
    /\ Len(callTimes) = nextCalls
    /\ nextCalls < MaxCalls
    /\ t0 + t >= now
    /\ now' = t0 + t
    /\ callTimes' = Append(callTimes, t)
    /\ UNCHANGED <<strategy, capped, clk, stop, t0, timer, attempt, control,
                   nextCalls, granted, nsCalls, waits, nsPos, waitPos, peeks,
                   peekN, peeksBefore, lastNext, ret, peeked, late, stopAt,
                   lastSleep, countRet, asked>>

\* ok := a.Next(), at the time the test has set.
TestNext ==
    /\ Len(callTimes) = nextCalls + 1
    /\ Call("Next")

\* a.HasNext() between two Next calls, as TestAttemptNextHasNext makes it.
TestHasNext ==
    /\ Len(callTimes) = nextCalls
    /\ AttemptHasNext

TestStep ==
    \/ \E t \in CallTimes : TestSetClock(t)
    \/ TestNext
    \/ TestHasNext

SpecTest == TestInit /\ [][TestStep]_vars

----------------------------------------------------------------------------
(* A caller that goes on calling Next for ever, on a clock that keeps time *)
(* and with a Timer that may answer anything.                              *)

LiveInit ==
    /\ strategy = AnyStrategy
    /\ clk = "timed"
    /\ stop \in {"open", "closed"}
    /\ capped = TRUE
    /\ Started

\* case <-a.stop, taken by the select of a Next call.
StopCase == AttemptNext /\ woke' = "stop"

\* The caller calls Next again whenever it can, a caller woken from the
\* select runs on, and a select that finds the stop case ready again and
\* again takes it in the end: Go chooses among the ready cases at random.
SpecLive ==
    /\ LiveInit
    /\ [][Next]_vars
    /\ WF_vars(AttemptNext)
    /\ WF_vars(Resume)
    /\ SF_vars(StopCase)

----------------------------------------------------------------------------
(* The claims.                                                             *)

\* The stop channel was closed before any select was entered.
earlyStop == stopAt # <<>> /\ stopAt[1] = 0

\* A call of Next, or of HasNext, returns in this step.
NextReturns == nextCalls' = nextCalls + 1
HasNextReturns == peekN' = peekN + 1

\* C1: the first call of Next returns true, whatever the Strategy, the
\* clock and the stop channel are, and until it has returned Timer.NextSleep
\* has not been called and no select has been entered: as long as no attempt
\* is granted no Next call has returned and the caller has never blocked,
\* and in the state the first Next call leaves it has returned true with no
\* NextSleep call and no select behind it.
C1_FirstNextGranted ==
    /\ granted = 0 =>
          nextCalls = 0 /\ nsCalls = 0 /\ waits = 0 /\ pc = "idle"
    /\ (nextCalls = 1 /\ ~waited) =>
          lastNext = {TRUE} /\ granted = 1 /\ nsCalls = 0 /\ waits = 0

\* C1's case: the first Next has returned true for a strategy with
\* Total = 0 and a stop channel closed before Start.
C1_Witness ==
    /\ nextCalls = 1 /\ ~waited /\ lastNext = {TRUE}
    /\ strategy = RegularZero /\ earlyStop /\ stop = "closed"

\* C2: Count is the number of Next calls that have returned true: a.count
\* equals that number in every state, a step changes it by 0 or by 1, a
\* returning Next adds 1 exactly when it returns true, and a Count call
\* returns that number.
C2_CountIsGranted ==
    /\ [](count = granted /\ (nextCalls = 0 => count = 0))
    /\ [][/\ count' \in {count, count + 1}
          /\ NextReturns =>
                count' = IF lastNext' = {TRUE} THEN count + 1 ELSE count
          /\ ~NextReturns => count' = count
          /\ AttemptCount => countRet' = {granted}]_vars

\* C2's case: Count returns 3 after three Next calls returned true and a
\* fourth returned false, with HasNext calls in between.
C2_Witness ==
    countRet = {3} /\ granted = 3 /\ nextCalls = 4 /\ peeked

\* C3: termination is terminal: a step never takes a.running from false to
\* true, and once Next or HasNext has returned false the next call of
\* either to return returns false (so every later one does).
C3_Terminal ==
    [][/\ running = FALSE => running' = FALSE
       /\ (ret = {FALSE} /\ (NextReturns \/ HasNextReturns)) => ret' = {FALSE}]_vars

\* C3's case: the Timer, which may answer anything, ended the Attempt at
\* the second Next call; the stop channel was closed after that call had
\* returned false, and HasNext, called after that, returned false.
C3_Witness ==
    /\ strategy = AnyStrategy /\ ~running /\ woke # "stop"
    /\ nextCalls = 2 /\ granted = 1 /\ lastNext = {FALSE}
    /\ stop = "closed" /\ stopAt = <<0, 2, 0>>
    /\ peekN >= 1 /\ ret = {FALSE}

\* C4: a Next call returns what the HasNext calls made since the previous
\* Next call returned.
C4_HasNextForetellsNext ==
    peeksBefore \subseteq lastNext

\* C4's case: HasNext waited for the second attempt and returned true, the
\* stop channel was closed after that wait had ended, and Next returned
\* true.
C4_Witness ==
    /\ peeksBefore = {TRUE} /\ lastNext = {TRUE} /\ nextCalls = 2
    /\ clk = "timed" /\ lastSleep > 0 /\ blocked /\ woke = "clock"
    /\ stop = "closed" /\ stopAt = <<1, 1, 1>>

\* C5: between two Next calls the HasNext calls together call NextSleep at
\* most once and enter the select at most once, and all return the same
\* value.
C5_HasNextIdempotent ==
    nsPos <= 1 /\ waitPos <= 1 /\ Cardinality(peeks) <= 1

\* C5's case: two consecutive HasNext calls, the first of which waited.
C5_Witness ==
    peekN >= 2 /\ nsPos = 1 /\ waitPos = 1 /\ peeks = {TRUE} /\ count >= 1

\* C6: when the stop channel is closed before any select is entered, a
\* loop of Next calls grants exactly one attempt: once two Next calls have
\* returned, one attempt has been granted and Count is 1.
C6_StopPreemptsSleep ==
    (earlyStop /\ ~peeked /\ nextCalls >= 2) => (granted = 1 /\ count = 1)

\* C7: closing the stop channel while the caller is blocked in the select
\* ends the wait at once with the stop case, whatever is left of the sleep;
\* nothing changes the case taken before the caller runs on, and the call
\* then leaves a.running false, returns false and does not count.
C7_StopWinsBlockedWait ==
    [][/\ (pc = "select" /\ stop = "open" /\ stop' = "closed") =>
              (pc' = "woken" /\ woke' = "stop" /\ now' < deadline')
       /\ (pc = "woken" /\ woke = "stop") =>
              /\ woke' = "stop"
              /\ pc' \in {"woken", "idle"}
              /\ pc' = "idle" =>
                    (running' = FALSE /\ ret' = {FALSE} /\ count' = count)]_vars

\* C7's case: a call that blocked was woken by the stop channel before the
\* clock's channel fired, and has returned false.
C7_Witness ==
    /\ pc = "idle" /\ blocked /\ woke = "stop" /\ now < deadline
    /\ ~running /\ ret = {FALSE} /\ lastNext = {FALSE} /\ count = 2

\* C8: NextSleep is called at most once for each position: never before
\* the first attempt is granted, never more often than attempts have been
\* granted, and exactly granted - 1 times when Next has just returned true.
C8_NextSleepOncePerPosition ==
    /\ granted = 0 => nsCalls = 0
    /\ granted >= 1 => nsCalls \in {granted - 1, granted}
    /\ (pc = "idle" /\ running /\ ~waited) => nsCalls = granted - 1

\* C8's case: Next has returned true for the third time, with HasNext
\* calls before it.
C8_Witness ==
    /\ pc = "idle" /\ running /\ ~waited /\ granted = 3 /\ nsCalls = 2
    /\ peeksBefore = {TRUE} /\ peeked

\* A step of a HasNext call, and a step in which Count returns.
HasNextActs == HasNextReturns \/ op' = "HasNext" \/ op = "HasNext"
CountReturns == countRet' # NoValue /\ countRet' # countRet

\* C9: no step of a HasNext call changes a.count, and a Count call changes
\* no field of the Attempt, does not touch the Timer, the clock or the stop
\* channel, and returns a.count.
C9_HasNextAndCountFrame ==
    [][/\ HasNextActs => count' = count
       /\ CountReturns =>
              /\ UNCHANGED <<attempt, world, control, nsCalls, waits>>
              /\ countRet' = {count}]_vars

\* C9's case: a HasNext call that waited has returned, and Count then
\* returned the count the HasNext call found.
C9_Witness ==
    /\ peekN >= 1 /\ waitPos = 1 /\ blocked /\ peeks = {TRUE}
    /\ count = 1 /\ countRet = {1}

\* Time since Start.
elapsed == now - t0

\* C10: Regular{Total: 0.25s, Delay: 0.1s}, with no cancellation, a loop of
\* Next calls that takes no time of its own and waits that end on time,
\* grants exactly 3 attempts, at 0, 0.1s and 0.2s after Start: the second
\* and the third Next call each sleep 0.1s, and the fourth returns false at
\* 0.2s without a further sleep.
C10_RegularTiming ==
    (/\ strategy = RegularTiming /\ stop # "closed" /\ ~late /\ ~peeked
     /\ pc = "idle") =>
        /\ nextCalls = 0 => elapsed = 0
        /\ nextCalls = 1 => granted = 1 /\ elapsed = 0 /\ waits = 0
        /\ nextCalls = 2 =>
              granted = 2 /\ elapsed = 2 /\ waits = 1 /\ lastSleep = 2
        /\ nextCalls = 3 =>
              granted = 3 /\ elapsed = 4 /\ waits = 2 /\ lastSleep = 2
        /\ nextCalls >= 4 =>
              /\ granted = 3 /\ count = 3 /\ lastNext = {FALSE}
              /\ elapsed = 4 /\ waits = 2 /\ nsCalls = 3

\* C10's case: the fourth Next call has returned false.
C10_Witness ==
    /\ strategy = RegularTiming /\ stop # "closed" /\ ~late /\ ~peeked
    /\ pc = "idle" /\ nextCalls = 4 /\ granted = 3 /\ clk = "timed"

\* The test has made exactly the calls ts, and the last of them has
\* returned.
Called(ts) == callTimes = ts /\ nextCalls = Len(ts) /\ pc = "idle"

\* C11: LimitCount(2, Exponential{Initial: 1s, Factor: 2}) grants exactly
\* two attempts whenever the calls are made: the first two Next calls return
\* true with Count 1 and 2, and every later Next returns false, the third
\* one without a sleep (the one sleep made is the second attempt's).
C11_LimitCountGrantsN ==
    (strategy = LimitCountExp /\ pc = "idle") =>
        /\ nextCalls \in {1, 2} =>
               (lastNext = {TRUE} /\ count = nextCalls)
        /\ nextCalls >= 3 =>
               /\ lastNext = {FALSE}
               /\ ~running
               /\ count = 2
               /\ waits = 1
               /\ asked[2] = FALSE
               /\ Len(callTimes) = nextCalls =>
                      now = t0 + callTimes[nextCalls]

C11_Witness ==
    /\ strategy = LimitCountExp
    /\ Called(<<0, 2, 20>>)
    /\ ~peeked /\ peekN = 0
    /\ lastNext = {FALSE}
    /\ now = t0 + 20

C13_ZeroRegularOneAttempt ==
    (strategy = RegularZero /\ pc = "idle" /\ nextCalls >= 1) =>
        /\ granted = 1
        /\ peeks \subseteq {FALSE}
        /\ nextCalls >= 2 => lastNext = {FALSE}

\* C14: Regular{Total: 0.1s, Min: 2} whose first Next is called when more
\* than the 0.1s have passed since Start: the first Next returns true, a
\* HasNext after it returns true and the second Next returns true, and
\* after that HasNext and Next return false: exactly two attempts.
C14_MinOverridesTotal ==
    (/\ strategy = RegularMin
     /\ pc = "idle"
     /\ nextCalls >= 1
     /\ callTimes[1] > RegularMin.Total) =>
        /\ nextCalls = 1 => (lastNext = {TRUE} /\ peeks \subseteq {TRUE})
        /\ nextCalls = 2 => (lastNext = {TRUE} /\ peeks \subseteq {FALSE})
        /\ nextCalls >= 3 => (lastNext = {FALSE} /\ peeks \subseteq {FALSE})
        /\ nextCalls >= 2 => (granted = 2 /\ count = 2)

C14_Witness ==
    /\ strategy = RegularMin
    /\ callTimes = <<4, 4, 4>>
    /\ nextCalls = 3
    /\ granted = 2
    /\ peeksBefore = {FALSE}
    /\ lastNext = {FALSE}
    /\ now = t0 + 4

\* C15: Exponential{Initial: 1s, Factor: 2} never stops: every Next returns
\* true and Count is the number of Next calls made; with Next called 0,
\* 0.1s, 1s, 3s and 7s after Start the calls sleep 0, 0.9s, 2s, 4s and 8s.
C15_ExponentialDoubles ==
    (strategy = ExpDouble /\ pc = "idle") =>
        /\ running
        /\ peeks \subseteq {TRUE}
        /\ lastNext \subseteq {TRUE}
        /\ count = nextCalls
        /\ ~peeked =>
               /\ Called(<<0>>) => (waits = 0 /\ now = t0)
               /\ Called(<<0, 2>>) =>
                      (asked = <<18, TRUE>> /\ now = t0 + 20)
               /\ Called(<<0, 2, 20>>) =>
                      (asked = <<40, TRUE>> /\ now = t0 + 60)
               /\ Called(<<0, 2, 20, 60>>) =>
                      (asked = <<80, TRUE>> /\ now = t0 + 140)
               /\ Called(<<0, 2, 20, 60, 140>>) =>
                      (asked = <<160, TRUE>> /\ now = t0 + 300)

C15_Witness ==
    /\ strategy = ExpDouble
    /\ ~peeked
    /\ Called(<<0, 2, 20, 60, 140>>)
    /\ lastNext = {TRUE}
    /\ count = 5
    /\ lastSleep = 160

\* C16: LimitTime(5s, Exponential{Initial: 1s, Factor: 2}) grants the first
\* attempt whatever the time, never grants a sleep that would end after the
\* 5s, and with Next called 0, 0.1s, 1s and 3s after Start the first three
\* calls return true after sleeps of 0, 0.9s and 2s and the fourth, whose
\* sleep of 4s would end at 7s, returns false without a sleep.
C16_LimitTimeStops ==
    (strategy = LimitTimeExp /\ pc = "idle") =>
        /\ nextCalls >= 1 => granted >= 1
        /\ (asked # <<>> /\ asked[2]) =>
               deadline - t0 <= LimitTimeExp.Limit
        /\ ~peeked =>
               /\ Called(<<0>>) => (lastNext = {TRUE} /\ now = t0)
               /\ Called(<<0, 2>>) =>
                      /\ lastNext = {TRUE}
                      /\ asked = <<18, TRUE>>
                      /\ now = t0 + 20
               /\ Called(<<0, 2, 20>>) =>
                      /\ lastNext = {TRUE}
                      /\ asked = <<40, TRUE>>
                      /\ now = t0 + 60
               /\ Called(<<0, 2, 20, 60>>) =>
                      /\ lastNext = {FALSE}
                      /\ asked = <<80, FALSE>>
                      /\ waits = 2
                      /\ now = t0 + 60

C16_Witness ==
    /\ strategy = LimitTimeExp
    /\ ~peeked
    /\ Called(<<0, 2, 20, 60>>)
    /\ lastNext = {FALSE}
    /\ granted = 3

\* C17: no attempt after the first is granted early. While the Attempt is
\* running and the Timer has been asked, its last answer was (D, true), the
\* select took the clock case and the clock has reached the instant After(D)
\* was due at; NextSleep is asked with the clock's time and After is called
\* with exactly the D it answered; and a caller blocked in the select
\* returns nothing and grants nothing until the clock reaches that instant
\* or stop is closed.
C17_NoEarlyGrant ==
    /\ [](/\ (pc = "idle" /\ running /\ nsCalls >= 1) =>
               /\ asked # <<>> /\ asked[2]
               /\ lastSleep = asked[1]
               /\ woke = "clock"
               /\ now >= deadline
               /\ waits = nsCalls
               /\ nsCalls = IF waited THEN granted ELSE granted - 1
          /\ (pc = "idle" /\ running /\ nsCalls = 0) =>
               granted <= 1
          /\ pc = "select" =>
               (now < deadline /\ stop # "closed" /\ running))
    /\ [][/\ nsCalls' = nsCalls + 1 =>
               /\ \E r \in NextSleep(strategy, timer, now) :
                      asked' = <<r.sleep, r.ok>> /\ timer' = r.timer
               /\ asked'[2] =>
                      /\ waits' = waits + 1
                      /\ lastSleep' = asked'[1]
                      /\ deadline' = now + asked'[1]
          /\ pc = "select" =>
               /\ granted' = granted /\ ret' = ret /\ count' = count
               /\ pc' # "select" =>
                      \/ woke' = "clock" /\ now' > now /\ now' >= deadline
                      \/ woke' = "stop" /\ stop = "open" /\ stop' = "closed"
      ]_vars

C17_Witness ==
    /\ clk = "timed"
    /\ stop = "open"
    /\ pc = "idle"
    /\ blocked
    /\ lastNext = {TRUE}
    /\ granted = 3
    /\ asked = <<2, TRUE>>
    /\ now = deadline

\* C18: once the stop channel is closed, a caller that keeps calling Next
\* gets false from it in the end, whatever the Timer answers and whether or
\* not the clock ever moves.
C18_StopEndsLoop == (stop = "closed") ~> (lastNext = {FALSE})

\* C18's case: stop was closed after one Next call had returned; a later
\* Next call entered the select, took the stop case and returned false.
C18_Witness ==
    /\ stop = "closed"
    /\ stopAt # <<>> /\ stopAt[2] = 1
    /\ granted = MaxLive
    /\ woke = "stop"
    /\ ~blocked
    /\ now = t0
    /\ lastNext = {FALSE}

\* C19: once the Attempt is terminated it stays so, and no step after that
\* asks the Timer, calls After, enters the select or takes one of its
\* cases; a call made then returns false at once and leaves the clock, the
\* count and the Timer as they were.
C19_TerminatedIsInert ==
    [][~running =>
          /\ ~running'
          /\ nsCalls' = nsCalls /\ asked' = asked /\ timer' = timer
          /\ waits' = waits /\ deadline' = deadline
          /\ lastSleep' = lastSleep
          /\ woke' = woke /\ blocked' = blocked
          /\ pc' = "idle"
          /\ count' = count /\ granted' = granted
          /\ (NextReturns \/ HasNextReturns) =>
                 (ret' = {FALSE} /\ now' = now)
      ]_vars

\* C19's case: a Timer that may answer anything said stop at the second
\* position; Next and HasNext were called again after that.
C19_Witness ==
    /\ strategy = AnyStrategy
    /\ ~running
    /\ asked # <<>> /\ ~asked[2]
    /\ nsCalls = 1
    /\ granted = 1
    /\ nextCalls = 4
    /\ peekN = 2
    /\ ret = {FALSE}

\* C20: a NextSleep that answers continue = false ends the Attempt in the
\* same call: the duration it answered is not slept, After is not called,
\* the clock is left as it was, no select is entered, and the call returns
\* false without blocking.
C20_StopAnswerEndsAtOnce ==
    [][(nsCalls' = nsCalls + 1 /\ ~asked'[2]) =>
          /\ pc' = "idle"
          /\ ~running'
          /\ ret' = {FALSE}
          /\ now' = now
          /\ deadline' = deadline /\ lastSleep' = lastSleep
          /\ waits' = waits /\ woke' = woke /\ blocked' = blocked
          /\ count' = count /\ granted' = granted
      ]_vars

\* C20's case: on the mockClock, with stop open, the Timer answered
\* (2, false) at the second position: the clock still shows the Start
\* time.
C20_Witness ==
    /\ clk = "mock"
    /\ stop = "open"
    /\ asked = <<2, FALSE>>
    /\ nsCalls = 1
    /\ waits = 0
    /\ ~running
    /\ lastNext = {FALSE}
    /\ now = t0

====
